---------------------------- MODULE Spec2Model ----------------------------
(***************************************************************************)
(* A model of the tool adapters of the sport-buddy repository:             *)
(*   search_teams    (src/adk/agents/sports_events_agent/tools.py)         *)
(*   get_stock_price (src/adk/agents/stock_agent/tools.py)                 *)
(* Each adapter call is a sequence of steps (validate, HTTP call, status   *)
(* check, JSON decoding, classification, per-record normalisation, the     *)
(* except clauses), the remote side being a nondeterministic environment.  *)
(***************************************************************************)
EXTENDS Integers, Sequences, FiniteSets, TLC

(***************************************************************************)
(* Python values.  Every value is tagged with its type, so that values of  *)
(* different types are never confused.  A str is a sequence of text        *)
(* pieces: inputs and remote values are sequences of single characters, a  *)
(* literal of the source is one piece.  A dict is a function from keys.    *)
(***************************************************************************)
PyNone == [t |-> "NoneType"]

PyStr(s) == [t |-> "str", v |-> s]

PyInt(n) == [t |-> "int", v |-> n]

PyBool(b) == [t |-> "bool", v |-> b]

PyList(s) == [t |-> "list", v |-> s]

PyDict(f) == [t |-> "dict", v |-> f]

PyTrue == PyBool(TRUE)

PyFalse == PyBool(FALSE)

EmptyDict == PyDict(<<>>)

\* A literal of the source text, as one piece ('' is the empty sequence).
Lit(text) == IF text = "" THEN PyStr(<<>>) ELSE PyStr(<<text>>)

\* Python truthiness: bool(x).
Truthy(x) ==
    CASE x.t = "NoneType" -> FALSE
      [] x.t = "str"      -> Len(x.v) > 0
      [] x.t = "int"      -> x.v # 0
      [] x.t = "bool"     -> x.v
      [] x.t = "list"     -> Len(x.v) > 0
      [] x.t = "dict"     -> DOMAIN x.v # {}

\* isinstance(x, str) / isinstance(x, dict)
IsStr(x) == x.t = "str"

IsDict(x) == x.t = "dict"

\* d.get(key, default) on a dict value d
DictGet(d, key, default) == IF key \in DOMAIN d.v THEN d.v[key] ELSE default

(***************************************************************************)
(* Characters, str.strip() and the allow-list of the format check.         *)
(***************************************************************************)
WhitespaceChars == {" ", "\n"}

LetterChars == {"a", "Z"}

DigitChars == {"7"}

PunctChars == {"-", ".", "'", "&"}

\* Characters outside the class [a-zA-Z0-9\s\-\.\'&]; U+00E9 is a letter
\* outside a-zA-Z.
OtherChars == {"!", "/", "U+00E9"}

AllChars == WhitespaceChars \cup LetterChars \cup DigitChars \cup PunctChars \cup OtherChars

\* The character class [a-zA-Z0-9\s\-\.\'&] of line 55.
InClass(c) == c \in LetterChars \cup DigitChars \cup WhitespaceChars \cup PunctChars

RECURSIVE LStrip(_)
LStrip(s) == IF s # <<>> /\ Head(s) \in WhitespaceChars THEN LStrip(Tail(s)) ELSE s

RECURSIVE RStrip(_)
RStrip(s) ==
    IF s # <<>> /\ s[Len(s)] \in WhitespaceChars THEN RStrip(SubSeq(s, 1, Len(s) - 1)) ELSE s

\* str.strip(): leading and trailing whitespace removed.
Strip(s) == RStrip(LStrip(s))

\* The length of the longest prefix of s made of characters of the class.
RECURSIVE ClassPrefixLen(_)
ClassPrefixLen(s) ==
    IF s # <<>> /\ InClass(Head(s)) THEN 1 + ClassPrefixLen(Tail(s)) ELSE 0

\* re.match(r'^[...]+$', s) with the end anchor dropped: a non-empty prefix matches.
FormatOkUnanchored(s) == ClassPrefixLen(s) >= 1

\* re.match(r'^[a-zA-Z0-9\s\-\.\'&]+$', s): one or more characters of the
\* class up to the end of s ('$' also matches before a final newline, which
\* is itself in the class).
FormatOk(s) == ClassPrefixLen(s) >= 1 /\ ClassPrefixLen(s) = Len(s)

\* The maximum length of a team name (line 65).
MAX_TEAM_NAME == 50

\* len(team_name_clean) > 50
TooLong(s) == Len(s) > MAX_TEAM_NAME

\* The timeout handed to requests.get (line 82).
HTTP_TIMEOUT == 10

\* The description's maximum length (line 131).
MAX_DESCRIPTION == 200


(***************************************************************************)
(* Bounds of the model.                                                    *)
(***************************************************************************)
\* The longest free part of a generated team name.
MaxCore == 2

\* The longest 'teams' list built from the sample entries.
MaxTeams == 2

\* The most chunks the agent's stream yields in a run.
MaxChunks == 2

(***************************************************************************)
(* Exceptions.  An exception is a class and its text; Ancestors gives the  *)
(* classes an instance of a class is an instance of (requests.exceptions   *)
(* and the builtins), which is what the except clauses test.               *)
(***************************************************************************)
Ancestors(cls) ==
    CASE cls = "ConnectTimeout" ->
           {"ConnectTimeout", "Timeout", "ConnectionError", "RequestException", "Exception"}
      [] cls = "ReadTimeout" -> {"ReadTimeout", "Timeout", "RequestException", "Exception"}
      [] cls = "ConnectionError" -> {"ConnectionError", "RequestException", "Exception"}
      [] cls = "SSLError" -> {"SSLError", "ConnectionError", "RequestException", "Exception"}
      [] cls = "HTTPError" -> {"HTTPError", "RequestException", "Exception"}
      \* requests >= 2.27: response.json() raises requests.exceptions.JSONDecodeError
      [] cls = "RequestsJSONDecodeError" ->
           {"RequestsJSONDecodeError", "InvalidJSONError", "RequestException",
            "ValueError", "Exception"}
      \* requests < 2.27: response.json() raises the json module's ValueError
      [] cls = "ValueError" -> {"ValueError", "Exception"}
      [] cls = "TypeError" -> {"TypeError", "Exception"}
      [] cls = "AttributeError" -> {"AttributeError", "Exception"}
      [] cls = "IndexError" -> {"IndexError", "Exception"}
      [] cls = "KeyError" -> {"KeyError", "Exception"}
      [] cls = "RuntimeError" -> {"RuntimeError", "Exception"}
      [] cls = "ImportError" -> {"ImportError", "Exception"}
      [] cls = "JSONDecodeError" -> {"JSONDecodeError", "ValueError", "Exception"}
      [] cls = "UnicodeEncodeError" ->
           {"UnicodeEncodeError", "UnicodeError", "ValueError", "Exception"}
      [] cls = "Exception" -> {"Exception"}
      \* sys.exit raises SystemExit, which is no Exception
      [] cls = "SystemExit" -> {"SystemExit", "BaseException"}

IsInstance(e, cls) == cls \in Ancestors(e.cls)

Exc(cls, text) == [cls |-> cls, msg |-> Lit(text)]

NoExc == [cls |-> "none"]

\* A local that holds nothing (yet).
Unset == [t |-> "unset"]

(***************************************************************************)
(* The arguments a caller may pass to search_teams.                        *)
(***************************************************************************)
Fill(n) == [i \in 1..n |-> "a"]

CoreAlphabet == {"a", " ", "!"}

Cores == UNION {[1..n -> CoreAlphabet] : n \in 0..MaxCore}

Pads == {<<>>, <<" ">>}

FillLens == {0, MAX_TEAM_NAME - 1, MAX_TEAM_NAME}

StringInputs ==
    {l \o Fill(n) \o c \o r : l \in Pads, n \in FillLens, c \in Cores, r \in Pads}
      \cup {<<c>> : c \in AllChars}

NonStringInputs ==
    {PyNone, PyInt(0), PyInt(7), PyTrue, PyList(<<>>), PyList(<<PyStr(<<"a">>)>>)}

TeamNameInputs == {PyStr(s) : s \in StringInputs} \cup NonStringInputs

(***************************************************************************)
(* The remote side: what requests.get may do.                              *)
(***************************************************************************)
\* The keys of a remote team record that lines 123-135 read.
RemoteFields ==
    {"idTeam", "strTeam", "strAlternate", "strLeague", "strSport", "intFormedYear",
     "strStadium", "strLocation", "strDescriptionEN", "strWebsite", "strTeamBadge",
     "strTeamJersey", "strCountry"}

\* A remote value of field f: a short text that names its field.
SampleValue(f) == PyStr(<<"v", ":", f>>)

\* A description of n characters.
DescOf(n) == PyStr([i \in 1..n |-> IF i % 3 = 0 THEN "c" ELSE IF i % 3 = 1 THEN "a" ELSE "b"])

DescLens == {0, 1, MAX_DESCRIPTION - 1, MAX_DESCRIPTION, MAX_DESCRIPTION + 1, MAX_DESCRIPTION + 50}

\* A remote record holding exactly the fields of F.
RecordOf(F) == PyDict([f \in F |-> SampleValue(f)])

FullRecord == RecordOf(RemoteFields)

\* d with key k set to x
DictSet(d, k, x) == PyDict([f \in DOMAIN d.v \cup {k} |-> IF f = k THEN x ELSE d.v[f]])

\* Well-formed records: the fields are absent, null or strings.
WellFormedRecords ==
    {FullRecord}
      \cup {RecordOf(RemoteFields \ {f}) : f \in RemoteFields}
      \cup {RecordOf({f}) : f \in RemoteFields}
      \cup {DictSet(FullRecord, f, PyNone) : f \in RemoteFields}
      \cup {DictSet(FullRecord, "strDescriptionEN", DescOf(n)) : n \in DescLens}
      \cup {DictSet(EmptyDict, "strDescriptionEN", DescOf(n)) : n \in DescLens}

\* Records whose description is not a string.
BadRecords ==
    {DictSet(FullRecord, "strDescriptionEN", PyInt(5)),
     DictSet(FullRecord, "strDescriptionEN", PyInt(0))}

\* The entries the sample lists are built from.
SampleEntries == {PyNone, PyStr(<<"x">>), EmptyDict, FullRecord, RecordOf({"idTeam", "strTeam"})}

SampleLists == UNION {[1..n -> SampleEntries] : n \in 0..MaxTeams}

\* The values of the 'teams' key of a decoded object.
TeamsValues ==
    {PyList(l) : l \in SampleLists}
      \cup {PyList(<<r>>) : r \in WellFormedRecords \cup BadRecords}
      \cup {PyNone, PyStr(<<"a", "b">>), PyInt(5), PyInt(0), PyTrue, RecordOf({"idTeam"})}

\* A decoded JSON document.
JsonValues ==
    {PyDict([teams |-> x]) : x \in TeamsValues}
      \cup {EmptyDict, PyDict([message |-> PyStr(<<"e">>)])}
      \cup {PyList(<<>>), PyList(<<FullRecord>>), PyStr(<<"a">>), PyInt(1), PyNone}

\* A response body: text that decodes to a JSON value, or text that does not.
NotJson == [decodable |-> FALSE]

JsonBody(x) == [decodable |-> TRUE, value |-> x]

DateHeader == PyDict([date |-> PyStr(<<"d">>)])

Response(status, body, headers) == [status |-> status, body |-> body, headers |-> headers]

Responses ==
    {Response(200, JsonBody(x), DateHeader) : x \in JsonValues}
      \cup {Response(200, NotJson, DateHeader)}
      \cup {Response(200, JsonBody(PyDict([teams |-> PyList(<<FullRecord>>)])), EmptyDict),
            Response(204, NotJson, EmptyDict),
            Response(304, NotJson, DateHeader),
            Response(304, JsonBody(PyDict([teams |-> PyList(<<FullRecord>>)])), DateHeader),
            Response(404, JsonBody(PyDict([teams |-> PyNone])), DateHeader),
            Response(404, NotJson, DateHeader),
            Response(500, NotJson, DateHeader),
            Response(503, JsonBody(PyDict([teams |-> PyList(<<FullRecord>>)])), DateHeader)}

\* The exceptions requests.get raises: timeouts and transport failures.
TransportExceptions ==
    {Exc("ConnectTimeout", "connect timeout=10"),
     Exc("ReadTimeout", "read timeout=10"),
     Exc("ConnectionError", "connection refused"),
     Exc("SSLError", "certificate verify failed")}

(***************************************************************************)
(* The results search_teams returns (a dict each, here a record).          *)
(***************************************************************************)
DigitOf(d) == <<"0", "1", "2", "3", "4", "5", "6", "7", "8", "9">>[d + 1]

\* str(n) of an int n >= 0, as characters.
RECURSIVE DecStr(_)
DecStr(n) == IF n < 10 THEN <<DigitOf(n)>> ELSE DecStr(n \div 10) \o <<DigitOf(n % 10)>>

\* An f-string: the concatenation of its parts.
RECURSIVE FStr(_)
FStr(parts) == IF parts = <<>> THEN <<>> ELSE Head(parts) \o FStr(Tail(parts))

\* lines 44-49
InvalidInputResult(name) ==
    [error |-> Lit("Invalid team name provided. Please provide a valid team name string."),
     team_name |-> name,
     validation_failed |-> PyTrue,
     success |-> PyFalse]

\* lines 57-62
InvalidFormatResult(name) ==
    [error |-> Lit("Invalid team name format. Use only letters, numbers, spaces and basic punctuation."),
     team_name |-> name,
     validation_failed |-> PyTrue,
     success |-> PyFalse]

\* lines 67-72
TooLongResult(name) ==
    [error |-> Lit("Team name too long. Maximum 50 characters allowed."),
     team_name |-> name,
     validation_failed |-> PyTrue,
     success |-> PyFalse]

\* The result of lines 97-102 with an empty 'teams' list beside the error.
ApiErrorResultWithTeams(clean) ==
    [error |-> Lit("Invalid response format from sports API"),
     team_name |-> clean,
     teams |-> PyList(<<>>),
     api_error |-> PyTrue,
     success |-> PyFalse]

\* lines 97-102
ApiErrorResult(clean) ==
    [error |-> Lit("Invalid response format from sports API"),
     team_name |-> clean,
     api_error |-> PyTrue,
     success |-> PyFalse]

\* lines 109-116
NoTeamsResult(clean) ==
    [teams |-> PyList(<<>>),
     count |-> PyInt(0),
     message |-> PyStr(FStr(<< <<"No teams found matching '">>, clean.v,
                               <<"'. Try different spelling or a more specific name.">> >>)),
     search_term |-> clean,
     success |-> PyTrue,
     timestamp |-> PyNone]

\* lines 140-148
FoundResult(clean, teams, resp) ==
    [teams |-> PyList(teams),
     count |-> PyInt(Len(teams)),
     search_term |-> clean,
     api_source |-> Lit("TheSportsDB"),
     success |-> PyTrue,
     timestamp |-> DictGet(resp.headers, "date", Lit("Unknown")),
     message |-> PyStr(FStr(<< <<"Found ">>, DecStr(Len(teams)), <<" team(s) matching '">>,
                               clean.v, <<"'">> >>))]

\* lines 157-163
TimeoutResult(name) ==
    [error |-> Lit("Request timed out. The sports API is taking too long to respond. Please try again."),
     team_name |-> name,
     timeout_error |-> PyTrue,
     success |-> PyFalse,
     timestamp |-> PyNone]

\* lines 169-176
NetworkErrorResult(name, e) ==
    [error |-> Lit("Network error occurred while searching for teams. Please check your connection and try again."),
     team_name |-> name,
     network_error |-> PyTrue,
     technical_details |-> e.msg,
     success |-> PyFalse,
     timestamp |-> PyNone]

\* lines 183-189
GenericErrorResult(name, e) ==
    [error |-> PyStr(FStr(<< <<"Unable to search for teams matching '">>,
                             IF IsStr(name) THEN name.v ELSE <<"<repr>">>,
                             <<"'. Please try a different team name or try again later.">> >>)),
     team_name |-> name,
     technical_error |-> e.msg,
     success |-> PyFalse,
     timestamp |-> PyNone]

\* The except clauses of lines 153-189 with the first two exchanged.
ExceptClausesSwapped(name, e) ==
    IF IsInstance(e, "RequestException") THEN [caught |-> TRUE, result |-> NetworkErrorResult(name, e)]
    ELSE IF IsInstance(e, "Timeout") THEN [caught |-> TRUE, result |-> TimeoutResult(name)]
    ELSE IF IsInstance(e, "Exception") THEN [caught |-> TRUE, result |-> GenericErrorResult(name, e)]
    ELSE [caught |-> FALSE]

\* The except clauses of lines 153-189: the first whose class the exception
\* is an instance of handles it.
ExceptClauses(name, e) ==
    IF IsInstance(e, "Timeout") THEN [caught |-> TRUE, result |-> TimeoutResult(name)]
    ELSE IF IsInstance(e, "RequestException") THEN [caught |-> TRUE, result |-> NetworkErrorResult(name, e)]
    ELSE IF IsInstance(e, "Exception") THEN [caught |-> TRUE, result |-> GenericErrorResult(name, e)]
    ELSE [caught |-> FALSE]

(***************************************************************************)
(* Normalisation of one remote record (lines 120-137).                     *)
(***************************************************************************)
Ok(x) == [ok |-> TRUE, value |-> x]

Raise(e) == [ok |-> FALSE, exc |-> e]

\* len(x): defined for str, list and dict, a TypeError otherwise.
PyLen(x) ==
    CASE x.t \in {"str", "list"} -> Ok(Len(x.v))
      [] x.t = "dict" -> Ok(Cardinality(DOMAIN x.v))
      [] OTHER -> Raise(Exc("TypeError", "object has no len()"))

\* x[:n] + '...': a str for a str, a TypeError otherwise (a list cannot be
\* added to a str, a dict cannot be sliced).
SliceEllipsis(x, n) ==
    IF x.t = "str" THEN Ok(PyStr(SubSeq(x.v, 1, n) \o <<".", ".", ".">>))
    ELSE Raise(Exc("TypeError", "unsupported operand or unhashable slice"))

\* The description of line 131 with '>= 200' for '> 200'.
DescriptionCutAtLimit(team) ==
    LET d == DictGet(team, "strDescriptionEN", PyNone)
        n == PyLen(DictGet(team, "strDescriptionEN", Lit("")))
    IN  IF ~Truthy(d) THEN Ok(DictGet(team, "strDescriptionEN", Lit("")))
        ELSE IF ~n.ok THEN n
        ELSE IF n.value >= MAX_DESCRIPTION
             THEN SliceEllipsis(DictGet(team, "strDescriptionEN", Lit("")), MAX_DESCRIPTION)
             ELSE Ok(DictGet(team, "strDescriptionEN", Lit("")))

\* The description of line 131:
\*   team.get(k, '')[:200] + '...' if team.get(k) and len(team.get(k, '')) > 200
\*   else team.get(k, '')
Description(team) ==
    LET d == DictGet(team, "strDescriptionEN", PyNone)
        n == PyLen(DictGet(team, "strDescriptionEN", Lit("")))
    IN  IF ~Truthy(d) THEN Ok(DictGet(team, "strDescriptionEN", Lit("")))
        ELSE IF ~n.ok THEN n
        ELSE IF n.value > MAX_DESCRIPTION
             THEN SliceEllipsis(DictGet(team, "strDescriptionEN", Lit("")), MAX_DESCRIPTION)
             ELSE Ok(DictGet(team, "strDescriptionEN", Lit("")))

\* The processed team of lines 122-136 with the defaults of league and sport exchanged.
ProcessedTeamWrongDefault(team, description) ==
    PyDict([team_id        |-> DictGet(team, "idTeam", PyNone),
            team_name      |-> DictGet(team, "strTeam", Lit("Unknown")),
            alternate_name |-> DictGet(team, "strAlternate", Lit("")),
            league         |-> DictGet(team, "strLeague", Lit("Unknown Sport")),
            sport          |-> DictGet(team, "strSport", Lit("Unknown League")),
            founded        |-> DictGet(team, "intFormedYear", Lit("")),
            venue          |-> DictGet(team, "strStadium", Lit("Unknown Venue")),
            location       |-> DictGet(team, "strLocation", Lit("Unknown Location")),
            description    |-> description,
            website        |-> DictGet(team, "strWebsite", Lit("")),
            logo           |-> DictGet(team, "strTeamBadge", Lit("")),
            jersey         |-> DictGet(team, "strTeamJersey", Lit("")),
            country        |-> DictGet(team, "strCountry", Lit("Unknown"))])

\* The processed team of lines 122-136, its description computed already.
ProcessedTeam(team, description) ==
    PyDict([team_id        |-> DictGet(team, "idTeam", PyNone),
            team_name      |-> DictGet(team, "strTeam", Lit("Unknown")),
            alternate_name |-> DictGet(team, "strAlternate", Lit("")),
            league         |-> DictGet(team, "strLeague", Lit("Unknown League")),
            sport          |-> DictGet(team, "strSport", Lit("Unknown Sport")),
            founded        |-> DictGet(team, "intFormedYear", Lit("")),
            venue          |-> DictGet(team, "strStadium", Lit("Unknown Venue")),
            location       |-> DictGet(team, "strLocation", Lit("Unknown Location")),
            description    |-> description,
            website        |-> DictGet(team, "strWebsite", Lit("")),
            logo           |-> DictGet(team, "strTeamBadge", Lit("")),
            jersey         |-> DictGet(team, "strTeamJersey", Lit("")),
            country        |-> DictGet(team, "strCountry", Lit("Unknown"))])

\* The elements of a set of strings, in some order.
RECURSIVE SetToSeq(_)
SetToSeq(S) == IF S = {} THEN <<>> ELSE LET x == CHOOSE y \in S : TRUE IN <<x>> \o SetToSeq(S \ {x})

\* What 'for team in teams_data' iterates over: the elements of a list, the
\* characters of a str, the keys of a dict; anything else is not iterable.
Iterate(x) ==
    CASE x.t = "list" -> Ok(x.v)
      [] x.t = "str"  -> Ok([i \in 1..Len(x.v) |-> PyStr(<<x.v[i]>>)])
      [] x.t = "dict" -> Ok([i \in 1..Cardinality(DOMAIN x.v) |-> PyStr(<<SetToSeq(DOMAIN x.v)[i]>>)])
      [] OTHER -> Raise(Exc("TypeError", "object is not iterable"))

\* teams_data == [None]
IsListOfNone(x) == x.t = "list" /\ Len(x.v) = 1 /\ x.v[1] = PyNone

\* The test of line 107 as a comparison with the empty list alone.
NoTeamsOnlyEmptyList(x) == x = PyList(<<>>)

\* not teams_data or teams_data == [None]  (line 107)
NoTeams(x) == ~Truthy(x) \/ IsListOfNone(x)

\* response.raise_for_status(): an HTTPError for a 4xx or 5xx status.
StatusRaises(status) == 400 <= status /\ status < 600

\* The exceptions response.json() raises on a body that is no JSON text: the
\* RequestException subclass of requests >= 2.27, the ValueError of older ones.
JsonDecodeExceptions ==
    {Exc("RequestsJSONDecodeError", "Expecting value: line 1 column 1 (char 0)"),
     Exc("ValueError", "Expecting value: line 1 column 1 (char 0)")}

(***************************************************************************)
(* The state: the adapter that is running and where it is, its argument    *)
(* and locals, what it returned or raised, and the HTTP calls it made.     *)
(***************************************************************************)
VARIABLES
    fn,               \* the adapter running: "none", "search_teams", "get_stock_price"
    pc,               \* the statement it is at
    team_name,        \* search_teams: the argument
    team_name_clean,  \* search_teams: line 52
    response,         \* search_teams: line 79
    data,             \* search_teams: line 92
    teams_data,       \* search_teams: line 105
    processed_teams,  \* search_teams: line 119
    idx,              \* search_teams: the position of the loop of line 120
    exc,              \* the exception being handled
    result,           \* the value returned to the caller
    propagated,       \* the exception raised to the caller
    http_calls,       \* the requests.get calls of this invocation
    request,          \* the arguments of the last requests.get
    repeat,           \* this invocation has the argument of the one before it
    ticker,           \* get_stock_price: the argument
    info,             \* get_stock_price: line 16
    price_data,       \* get_stock_price: line 17
    cpc,              \* agent_runner.py: the statement the process is at
    argv,             \* agent_runner.py: sys.argv[1:]
    stdout_utf8,      \* agent_runner.py: sys.stdout encodes every character
    full_response,    \* run_agent: line 36
    received,         \* run_agent: the chunks the stream has yielded so far
    cli_response,     \* main: line 77
    cli_exc,          \* agent_runner.py: the exception in flight
    stdout,           \* agent_runner.py: the lines printed so far
    stderr_traceback, \* agent_runner.py: the interpreter reported an uncaught exception
    exit_code,        \* agent_runner.py: the exit status of the process
    run_async_calls   \* agent_runner.py: the calls of sports_agent.run_async

\* The state of the tool adapters.
toolVars ==
    <<fn, pc, team_name, team_name_clean, response, data, teams_data, processed_teams,
      idx, exc, result, propagated, http_calls, request, repeat, ticker, info, price_data>>

\* The state of a run of agent_runner.py.
cliVars ==
    <<cpc, argv, stdout_utf8, full_response, received, cli_response, cli_exc, stdout,
      stderr_traceback, exit_code, run_async_calls>>

vars == <<toolVars, cliVars>>

searchLocals == <<team_name_clean, response, data, teams_data, processed_teams, idx>>

stockVars == <<ticker, info, price_data>>

Init ==
    /\ fn = "none"
    /\ pc = "idle"
    /\ team_name = Unset
    /\ team_name_clean = Unset
    /\ response = Unset
    /\ data = Unset
    /\ teams_data = Unset
    /\ processed_teams = <<>>
    /\ idx = 0
    /\ exc = NoExc
    /\ result = Unset
    /\ propagated = NoExc
    /\ http_calls = 0
    /\ request = Unset
    /\ repeat = FALSE
    /\ ticker = Unset
    /\ info = Unset
    /\ price_data = Unset
    /\ cpc = "off"
    /\ argv = <<>>
    /\ stdout_utf8 = TRUE
    /\ full_response = Unset
    /\ received = <<>>
    /\ cli_response = Unset
    /\ cli_exc = NoExc
    /\ stdout = <<>>
    /\ stderr_traceback = FALSE
    /\ exit_code = -1
    /\ run_async_calls = 0

\* No adapter is running and the caller holds no result it has not taken.
AtRest == pc = "idle"

\* search_teams's return statement: the frame ends with a value.
Return(value) ==
    /\ result' = value
    /\ pc' = "returned"

\* A statement of search_teams's try block raises e.
Throw(e) ==
    /\ exc' = e
    /\ pc' = "except"

\* The caller calls search_teams(name): a fresh frame.
Invoke ==
    /\ AtRest
    /\ \E name \in TeamNameInputs :
         /\ team_name' = name
         /\ repeat' = (fn = "search_teams" /\ team_name = name)
    /\ fn' = "search_teams"
    /\ pc' = "validate"
    /\ team_name_clean' = Unset
    /\ response' = Unset
    /\ data' = Unset
    /\ teams_data' = Unset
    /\ processed_teams' = <<>>
    /\ idx' = 0
    /\ exc' = NoExc
    /\ result' = Unset
    /\ propagated' = NoExc
    /\ http_calls' = 0
    /\ request' = Unset
    /\ ticker' = Unset
    /\ info' = Unset
    /\ price_data' = Unset
    /\ UNCHANGED cliVars

\* lines 42-74: the three validation tests, in order.
Validate ==
    /\ fn = "search_teams" /\ pc = "validate"
    /\ IF ~Truthy(team_name) \/ ~IsStr(team_name)
       THEN Return(InvalidInputResult(team_name)) /\ UNCHANGED team_name_clean
       ELSE /\ team_name_clean' = PyStr(Strip(team_name.v))
            /\ IF ~FormatOk(Strip(team_name.v))
               THEN Return(InvalidFormatResult(team_name))
               ELSE IF TooLong(Strip(team_name.v))
               THEN Return(TooLongResult(team_name))
               ELSE pc' = "request" /\ UNCHANGED result
    /\ UNCHANGED <<fn, team_name, response, data, teams_data, processed_teams, idx, exc,
                   propagated, http_calls, request, repeat, stockVars>>
    /\ UNCHANGED cliVars

\* The arguments of the requests.get of lines 79-87.
GetRequest(clean) ==
    [url |-> "https://www.thesportsdb.com/api/v1/json/962825/searchteams.php",
     params |-> [t |-> clean],
     timeout |-> HTTP_TIMEOUT,
     headers |-> [UserAgent |-> "Sports-Events-Agent/1.0", Accept |-> "application/json"]]

\* The call of lines 79-87 made again after a first timeout.
HttpGetRetry ==
    /\ fn = "search_teams" /\ pc = "request"
    /\ http_calls' = http_calls + 1
    /\ request' = GetRequest(team_name_clean)
    /\ \/ \E r \in Responses :
            /\ response' = r
            /\ pc' = "raise_for_status"
            /\ UNCHANGED exc
       \/ \E e \in TransportExceptions :
            /\ IF IsInstance(e, "Timeout") /\ http_calls = 0
               THEN UNCHANGED <<pc, exc>>
               ELSE Throw(e)
            /\ UNCHANGED response
    /\ UNCHANGED <<fn, team_name, team_name_clean, data, teams_data, processed_teams, idx,
                   result, propagated, repeat, stockVars>>
    /\ UNCHANGED cliVars

\* lines 79-87: one requests.get; the remote side answers, or the call raises.
HttpGet ==
    /\ fn = "search_teams" /\ pc = "request"
    /\ http_calls' = http_calls + 1
    /\ request' = GetRequest(team_name_clean)
    /\ \/ \E r \in Responses :
            /\ response' = r
            /\ pc' = "raise_for_status"
            /\ UNCHANGED exc
       \/ \E e \in TransportExceptions :
            /\ Throw(e)
            /\ UNCHANGED response
    /\ UNCHANGED <<fn, team_name, team_name_clean, data, teams_data, processed_teams, idx,
                   result, propagated, repeat, stockVars>>
    /\ UNCHANGED cliVars

\* line 90: response.raise_for_status()
RaiseForStatus ==
    /\ fn = "search_teams" /\ pc = "raise_for_status"
    /\ IF StatusRaises(response.status)
       THEN Throw(Exc("HTTPError", "Client or Server Error for url"))
       ELSE pc' = "json" /\ UNCHANGED exc
    /\ UNCHANGED <<fn, team_name, searchLocals, result, propagated, http_calls, request,
                   repeat, stockVars>>
    /\ UNCHANGED cliVars

\* line 92: data = response.json()
Json ==
    /\ fn = "search_teams" /\ pc = "json"
    /\ IF response.body.decodable
       THEN /\ data' = response.body.value
            /\ pc' = "classify"
            /\ UNCHANGED exc
       ELSE /\ \E e \in JsonDecodeExceptions : Throw(e)
            /\ UNCHANGED data
    /\ UNCHANGED <<fn, team_name, team_name_clean, response, teams_data, processed_teams, idx,
                   result, propagated, http_calls, request, repeat, stockVars>>
    /\ UNCHANGED cliVars

\* lines 95-119: the shape test, teams_data, the no-match result, and the
\* start of the loop of line 120 (iter(teams_data)).
Classify ==
    /\ fn = "search_teams" /\ pc = "classify"
    /\ IF ~IsDict(data)
       THEN /\ Return(ApiErrorResult(team_name_clean))
            /\ UNCHANGED <<teams_data, idx, exc>>
       ELSE /\ teams_data' = DictGet(data, "teams", PyList(<<>>))
            /\ IF NoTeams(teams_data')
               THEN Return(NoTeamsResult(team_name_clean)) /\ UNCHANGED <<idx, exc>>
               ELSE IF Iterate(teams_data').ok
               THEN pc' = "loop" /\ idx' = 1 /\ UNCHANGED <<result, exc>>
               ELSE Throw(Iterate(teams_data').exc) /\ UNCHANGED <<result, idx>>
    /\ UNCHANGED <<fn, team_name, team_name_clean, response, data, processed_teams,
                   propagated, http_calls, request, repeat, stockVars>>
    /\ UNCHANGED cliVars

\* lines 120-137: one iteration of the loop.
LoopStep ==
    /\ fn = "search_teams" /\ pc = "loop"
    /\ idx <= Len(Iterate(teams_data).value)
    /\ LET team == Iterate(teams_data).value[idx]
       IN  IF Truthy(team) /\ IsDict(team)
           THEN IF Description(team).ok
                THEN /\ processed_teams' =
                          Append(processed_teams, ProcessedTeam(team, Description(team).value))
                     /\ idx' = idx + 1
                     /\ UNCHANGED <<pc, exc>>
                ELSE /\ Throw(Description(team).exc)
                     /\ UNCHANGED <<processed_teams, idx>>
           ELSE /\ idx' = idx + 1
                /\ UNCHANGED <<pc, exc, processed_teams>>
    /\ UNCHANGED <<fn, team_name, team_name_clean, response, data, teams_data, result,
                   propagated, http_calls, request, repeat, stockVars>>
    /\ UNCHANGED cliVars

\* lines 140-151: the loop is over; the result is built and returned.
ReturnFound ==
    /\ fn = "search_teams" /\ pc = "loop"
    /\ idx > Len(Iterate(teams_data).value)
    /\ Return(FoundResult(team_name_clean, processed_teams, response))
    /\ UNCHANGED <<fn, team_name, searchLocals, exc, propagated, http_calls, request,
                   repeat, stockVars>>
    /\ UNCHANGED cliVars

\* lines 153-189: the except clauses; an exception none of them catches
\* goes to the caller.
Except ==
    /\ fn = "search_teams" /\ pc = "except"
    /\ IF ExceptClauses(team_name, exc).caught
       THEN Return(ExceptClauses(team_name, exc).result) /\ UNCHANGED propagated
       ELSE propagated' = exc /\ pc' = "raised" /\ UNCHANGED result
    /\ UNCHANGED <<fn, team_name, searchLocals, exc, http_calls, request, repeat, stockVars>>
    /\ UNCHANGED cliVars

(***************************************************************************)
(* get_stock_price (src/adk/agents/stock_agent/tools.py).                  *)
(***************************************************************************)
TickerInputs == {PyStr(<<"A", "A", "P", "L">>), PyStr(<<"?">>), PyStr(<<>>), PyNone, PyInt(7)}

\* A value of a price column, and the Python float that float() makes of it.
Float64(n) == [t |-> "float64", v |-> n]

PyFloat(x) == [t |-> "float", v |-> x.v]

PriceRow(close, high, low) == [Close |-> Float64(close), High |-> Float64(high), Low |-> Float64(low)]

\* stock.history(period="1d"): the rows of the frame, possibly none.
PriceFrames == {<<>>, <<PriceRow(10, 12, 9)>>, <<PriceRow(10, 12, 9), PriceRow(11, 13, 8)>>}

\* stock.info
InfoValues ==
    {PyDict([shortName |-> PyStr(<<"A", "c", "o">>), currency |-> PyStr(<<"E", "U", "R">>)]),
     PyDict([shortName |-> PyStr(<<"A", "c", "o">>)]),
     EmptyDict,
     PyNone}

\* What lines 15-17 may raise (yfinance goes to the network).
YfExceptions ==
    {Exc("ConnectionError", "connection refused"),
     Exc("HTTPError", "404 Client Error"),
     Exc("KeyError", "'regularMarketPrice'"),
     Exc("TypeError", "expected string")}

\* lines 19-26: the mapping of a successful lookup, or the exception that
\* building it raises (info is no dict, the frame has no row).
StockResult(tk, inf, frame) ==
    IF ~IsDict(inf) THEN Raise(Exc("AttributeError", "object has no attribute 'get'"))
    ELSE IF frame = <<>> THEN Raise(Exc("IndexError", "single positional indexer is out-of-bounds"))
    ELSE Ok([company_name  |-> DictGet(inf, "shortName", Lit("Unknown")),
             current_price |-> PyFloat(frame[Len(frame)].Close),
             daily_high    |-> PyFloat(frame[Len(frame)].High),
             daily_low     |-> PyFloat(frame[Len(frame)].Low),
             currency      |-> DictGet(inf, "currency", Lit("USD")),
             ticker        |-> tk])

\* lines 28-31
StockErrorResult(tk, e) ==
    [error |-> PyStr(<<"Failed to retrieve stock information: ">> \o e.msg.v),
     ticker |-> tk]

\* line 27: except Exception as e
StockExceptClause(tk, e) ==
    IF IsInstance(e, "Exception") THEN [caught |-> TRUE, result |-> StockErrorResult(tk, e)]
    ELSE [caught |-> FALSE]

\* The caller calls get_stock_price(tk): a fresh frame.
InvokeStock ==
    /\ AtRest
    /\ \E tk \in TickerInputs : ticker' = tk
    /\ fn' = "get_stock_price"
    /\ pc' = "yf_fetch"
    /\ info' = Unset
    /\ price_data' = Unset
    /\ exc' = NoExc
    /\ result' = Unset
    /\ propagated' = NoExc
    /\ http_calls' = 0
    /\ request' = Unset
    /\ repeat' = FALSE
    /\ team_name' = Unset
    /\ team_name_clean' = Unset
    /\ response' = Unset
    /\ data' = Unset
    /\ teams_data' = Unset
    /\ processed_teams' = <<>>
    /\ idx' = 0
    /\ UNCHANGED cliVars

\* lines 15-17: yf.Ticker(ticker), stock.info, stock.history(period="1d")
YfFetch ==
    /\ fn = "get_stock_price" /\ pc = "yf_fetch"
    /\ \/ \E inf \in InfoValues, frame \in PriceFrames :
            /\ info' = inf
            /\ price_data' = frame
            /\ pc' = "yf_build"
            /\ UNCHANGED exc
       \/ \E e \in YfExceptions :
            /\ Throw(e)
            /\ UNCHANGED <<info, price_data>>
    /\ UNCHANGED <<fn, team_name, searchLocals, result, propagated, http_calls, request,
                   repeat, ticker>>
    /\ UNCHANGED cliVars

\* lines 19-26: the return statement of the try block.
StockBuild ==
    /\ fn = "get_stock_price" /\ pc = "yf_build"
    /\ IF StockResult(ticker, info, price_data).ok
       THEN Return(StockResult(ticker, info, price_data).value) /\ UNCHANGED exc
       ELSE Throw(StockResult(ticker, info, price_data).exc) /\ UNCHANGED result
    /\ UNCHANGED <<fn, team_name, searchLocals, propagated, http_calls, request, repeat,
                   stockVars>>
    /\ UNCHANGED cliVars

\* lines 27-31: the except clause.
StockExcept ==
    /\ fn = "get_stock_price" /\ pc = "except"
    /\ IF StockExceptClause(ticker, exc).caught
       THEN Return(StockExceptClause(ticker, exc).result) /\ UNCHANGED propagated
       ELSE propagated' = exc /\ pc' = "raised" /\ UNCHANGED result
    /\ UNCHANGED <<fn, team_name, searchLocals, exc, http_calls, request, repeat, stockVars>>
    /\ UNCHANGED cliVars

\* The caller (the agent runtime's FunctionTool) takes what the adapter
\* returned or raised; the adapter's frame, its locals with it, is gone.
Deliver ==
    /\ pc \in {"returned", "raised"}
    /\ pc' = "idle"
    /\ team_name_clean' = Unset
    /\ response' = Unset
    /\ data' = Unset
    /\ teams_data' = Unset
    /\ processed_teams' = <<>>
    /\ idx' = 0
    /\ exc' = NoExc
    /\ result' = Unset
    /\ propagated' = NoExc
    /\ http_calls' = 0
    /\ request' = Unset
    /\ info' = Unset
    /\ price_data' = Unset
    /\ UNCHANGED <<fn, team_name, repeat, ticker>>
    /\ UNCHANGED cliVars

(***************************************************************************)
(* The specification.                                                      *)
(***************************************************************************)
Next ==
    \/ Invoke
    \/ Validate
    \/ HttpGet
    \/ RaiseForStatus
    \/ Json
    \/ Classify
    \/ LoopStep
    \/ ReturnFound
    \/ Except
    \/ InvokeStock
    \/ YfFetch
    \/ StockBuild
    \/ StockExcept
    \/ Deliver

Spec == Init /\ [][Next]_vars

(***************************************************************************)
(* The command-line runner (src/adk/agent_runner.py).  A run is the import *)
(* of the agent, main() and run_agent(); the agent runtime's stream is the *)
(* environment: at each step it yields a chunk, ends or raises.            *)
(***************************************************************************)
\* A character sys.stdout cannot encode unless its encoding is UTF-8.
NonAscii == "U+263A"

\* The text of an exception: str(e).
StrOfExc(e) == e.msg.v

\* sys.exit(code)
SysExit(code) == [cls |-> "SystemExit", code |-> code, msg |-> PyStr(DecStr(code))]

\* sys.argv[1:]: no argument, a message, a message and a context.
ContextArgs == {"{\"a\":1}", "5", "NaN", "not-json", "{a:1}", ""}

ArgvInputs == {<<>>, <<"hello">>} \cup {<<"hi", c>> : c \in ContextArgs}

\* json.loads(text) on the context arguments: the value, or the
\* JSONDecodeError (Python's json reads NaN as a float).
JsonLoads(text) ==
    CASE text = "{\"a\":1}" -> Ok(PyDict([a |-> PyInt(1)]))
      [] text = "5" -> Ok(PyInt(5))
      [] text = "NaN" -> Ok([t |-> "float", v |-> "nan"])
      [] OTHER -> Raise(Exc("JSONDecodeError", "Expecting value: line 1 column 1 (char 0)"))

\* A value whose str() raises.
Unprintable == [t |-> "unprintable"]

\* str(x) of an attribute value of a chunk, as characters.
StrOf(x) ==
    CASE x.t = "str" -> Ok(x.v)
      [] x.t = "NoneType" -> Ok(<<"N", "o", "n", "e">>)
      [] x.t = "int" -> Ok(DecStr(x.v))
      [] OTHER -> Raise(Exc("RuntimeError", "__str__ failed"))

\* A streamed chunk: its attributes, and what str(chunk) gives.
Chunk(attrs) == [attrs |-> attrs, repr |-> <<"<", "E", ">">>]

SampleChunks ==
    {Chunk([content |-> PyStr(<<"H", "e", "l">>)]),
     Chunk([content |-> PyStr(<<"l", "o">>), text |-> PyStr(<<"X">>), data |-> PyStr(<<"Y">>)]),
     Chunk([text |-> PyStr(<<"t">>), data |-> PyStr(<<"d">>)]),
     Chunk([data |-> PyInt(42)]),
     Chunk(<<>>),
     Chunk([content |-> PyNone]),
     Chunk([content |-> PyStr(<<" ">>)]),
     Chunk([text |-> PyStr(<<"\n">>)]),
     Chunk([text |-> PyStr(<<NonAscii>>)]),
     Chunk([content |-> Unprintable])}

\* hasattr(chunk, name)
HasAttr(chunk, name) == name \in DOMAIN chunk.attrs

\* lines 41-48 with 'text' tested before 'content'.
ContributionTextFirst(chunk) ==
    IF HasAttr(chunk, "text") THEN StrOf(chunk.attrs.text)
    ELSE IF HasAttr(chunk, "content") THEN StrOf(chunk.attrs.content)
    ELSE IF HasAttr(chunk, "data") THEN StrOf(chunk.attrs.data)
    ELSE Ok(chunk.repr)

\* lines 41-48: what a chunk adds to full_response.
Contribution(chunk) ==
    IF HasAttr(chunk, "content") THEN StrOf(chunk.attrs.content)
    ELSE IF HasAttr(chunk, "text") THEN StrOf(chunk.attrs.text)
    ELSE IF HasAttr(chunk, "data") THEN StrOf(chunk.attrs.data)
    ELSE Ok(chunk.repr)

\* What the stream may raise.
StreamExceptions ==
    {Exc("RuntimeError", "model overloaded"),
     Exc("TypeError", "run_async() argument must be an InvocationContext"),
     Exc("ValueError", NonAscii)}

\* traceback.format_exc() while e is handled.
FormatExc(e) ==
    <<"Traceback (most recent call last):", "\n",
      "  File \"agent_runner.py\", line 39, in run_agent", "\n", e.cls, ": ">>
      \o StrOfExc(e) \o <<"\n">>

\* line 53: f"Agent execution error: {str(e)}\n{traceback.format_exc()}"
ErrorDetails(e) == <<"Agent execution error: ">> \o StrOfExc(e) \o <<"\n">> \o FormatExc(e)

\* The elements of a sequence.
Range(seq) == {seq[i] : i \in DOMAIN seq}

\* sys.stdout can encode the text: print(text) raises UnicodeEncodeError otherwise.
Encodable(text) == stdout_utf8 \/ NonAscii \notin Range(text)

\* The lines of the three error blocks printed by one print each.
ImportErrorBlock ==
    << <<"AGENT_ERROR_START">>,
       <<"Import error: ", "No module named 'agents'">>,
       <<"AGENT_ERROR_END">> >>

UsageBlock ==
    << <<"AGENT_ERROR_START">>,
       <<"Usage: python agent_runner.py <message> [context_json]">>,
       <<"AGENT_ERROR_END">> >>

InvalidJsonBlock(e) ==
    << <<"AGENT_ERROR_START">>,
       <<"Invalid context JSON: ">> \o StrOfExc(e),
       <<"AGENT_ERROR_END">> >>

\* line 84 as 'except BaseException'.
MainCatchesBaseException(e) == TRUE

\* line 84: except Exception as e
MainCatches(e) == IsInstance(e, "Exception")

\* The process ends with status code.
ExitWith(code) ==
    /\ cpc' = "exited"
    /\ exit_code' = code

\* The process is started: python agent_runner.py <argv>.
Launch ==
    /\ cpc = "off"
    /\ cpc' = "import"
    /\ argv' \in ArgvInputs
    /\ stdout_utf8' \in BOOLEAN
    /\ UNCHANGED <<full_response, received, cli_response, cli_exc, stdout, stderr_traceback,
                   exit_code, run_async_calls>>
    /\ UNCHANGED toolVars

\* lines 13-17: the import of sports_agent, or the error block and exit 1.
Import ==
    /\ cpc = "import"
    /\ \/ /\ cpc' = "check_args"
          /\ UNCHANGED <<stdout, exit_code>>
       \/ /\ stdout' = stdout \o ImportErrorBlock
          /\ ExitWith(1)
    /\ UNCHANGED <<argv, stdout_utf8, full_response, received, cli_response, cli_exc,
                   stderr_traceback, run_async_calls>>
    /\ UNCHANGED toolVars

\* lines 61-66: without a message the usage block is printed and sys.exit(1)
\* raises inside the try block.
CheckArgs ==
    /\ cpc = "check_args"
    /\ IF Len(argv) + 1 < 2
       THEN /\ stdout' = stdout \o UsageBlock
            /\ cli_exc' = SysExit(1)
            /\ cpc' = "main_except"
       ELSE /\ cpc' = "parse"
            /\ UNCHANGED <<stdout, cli_exc>>
    /\ UNCHANGED <<argv, stdout_utf8, full_response, received, cli_response,
                   stderr_traceback, exit_code, run_async_calls>>
    /\ UNCHANGED toolVars

\* lines 69-74: the optional context is parsed; a JSONDecodeError prints the
\* block and sys.exit(1) raises inside the try block.
ParseContext ==
    /\ cpc = "parse"
    /\ IF Len(argv) + 1 > 2 /\ ~JsonLoads(argv[2]).ok
       THEN /\ stdout' = stdout \o InvalidJsonBlock(JsonLoads(argv[2]).exc)
            /\ cli_exc' = SysExit(1)
            /\ cpc' = "main_except"
       ELSE /\ cpc' = "call"
            /\ UNCHANGED <<stdout, cli_exc>>
    /\ UNCHANGED <<argv, stdout_utf8, full_response, received, cli_response,
                   stderr_traceback, exit_code, run_async_calls>>
    /\ UNCHANGED toolVars

\* lines 77, 36-39: run_agent starts and calls sports_agent.run_async.
CallRunAgent ==
    /\ cpc = "call"
    /\ full_response' = <<>>
    /\ run_async_calls' = run_async_calls + 1
    /\ cpc' = "stream"
    /\ UNCHANGED <<argv, stdout_utf8, received, cli_response, cli_exc, stdout,
                   stderr_traceback, exit_code>>
    /\ UNCHANGED toolVars

\* lines 39-48: the stream yields a chunk, which is added to full_response
\* (or whose handling raises).
StreamChunk ==
    /\ cpc = "stream"
    /\ Len(received) < MaxChunks
    /\ \E chunk \in SampleChunks :
         /\ received' = Append(received, chunk)
         /\ IF Contribution(chunk).ok
            THEN /\ full_response' = full_response \o Contribution(chunk).value
                 /\ UNCHANGED <<cpc, cli_exc>>
            ELSE /\ cli_exc' = Contribution(chunk).exc
                 /\ cpc' = "run_agent_except"
                 /\ UNCHANGED full_response
    /\ UNCHANGED <<argv, stdout_utf8, cli_response, stdout, stderr_traceback, exit_code,
                   run_async_calls>>
    /\ UNCHANGED toolVars

\* lines 39, 50: the stream is exhausted; run_agent returns full_response.strip().
StreamEnd ==
    /\ cpc = "stream"
    /\ cli_response' = PyStr(Strip(full_response))
    /\ cpc' = "print"
    /\ UNCHANGED <<argv, stdout_utf8, full_response, received, cli_exc, stdout,
                   stderr_traceback, exit_code, run_async_calls>>
    /\ UNCHANGED toolVars

\* line 39: the stream raises.
StreamRaise ==
    /\ cpc = "stream"
    /\ \E e \in StreamExceptions : cli_exc' = e
    /\ cpc' = "run_agent_except"
    /\ UNCHANGED <<argv, stdout_utf8, full_response, received, cli_response, stdout,
                   stderr_traceback, exit_code, run_async_calls>>
    /\ UNCHANGED toolVars

\* lines 52-54: run_agent's except clause raises Exception(error_details).
RunAgentExcept ==
    /\ cpc = "run_agent_except"
    /\ cli_exc' = [cls |-> "Exception", msg |-> PyStr(ErrorDetails(cli_exc))]
    /\ cpc' = "main_except"
    /\ UNCHANGED <<argv, stdout_utf8, full_response, received, cli_response, stdout,
                   stderr_traceback, exit_code, run_async_calls>>
    /\ UNCHANGED toolVars

\* lines 80-82: the three prints of the response block, inside the try
\* block; print(response) raises when stdout cannot encode the response.
\* main() then returns and the process ends with status 0.
PrintResponse ==
    /\ cpc = "print"
    /\ IF Encodable(cli_response.v)
       THEN /\ stdout' = stdout \o << <<"AGENT_RESPONSE_START">>, cli_response.v,
                                      <<"AGENT_RESPONSE_END">> >>
            /\ ExitWith(0)
            /\ UNCHANGED cli_exc
       ELSE /\ stdout' = stdout \o << <<"AGENT_RESPONSE_START">> >>
            /\ cli_exc' = Exc("UnicodeEncodeError", "'charmap' codec can't encode character")
            /\ cpc' = "main_except"
            /\ UNCHANGED exit_code
    /\ UNCHANGED <<argv, stdout_utf8, full_response, received, cli_response,
                   stderr_traceback, run_async_calls>>
    /\ UNCHANGED toolVars

\* lines 84-88: main's except clause prints the error block and exits 1 (the
\* interpreter reports the exception, status 1, when a print of the clause
\* itself raises); a SystemExit passes the clause and ends the process with
\* its code.
MainExcept ==
    /\ cpc = "main_except"
    /\ IF MainCatches(cli_exc)
       THEN IF Encodable(<<"Error: ">> \o StrOfExc(cli_exc))
            THEN /\ stdout' = stdout \o << <<"AGENT_ERROR_START">>,
                                           <<"Error: ">> \o StrOfExc(cli_exc),
                                           <<"AGENT_ERROR_END">> >>
                 /\ ExitWith(1)
                 /\ UNCHANGED stderr_traceback
            ELSE /\ stdout' = stdout \o << <<"AGENT_ERROR_START">> >>
                 /\ stderr_traceback' = TRUE
                 /\ ExitWith(1)
       ELSE /\ ExitWith(cli_exc.code)
            /\ UNCHANGED <<stdout, stderr_traceback>>
    /\ UNCHANGED <<argv, stdout_utf8, full_response, received, cli_response, cli_exc,
                   run_async_calls>>
    /\ UNCHANGED toolVars

CliNext ==
    \/ Launch
    \/ Import
    \/ CheckArgs
    \/ ParseContext
    \/ CallRunAgent
    \/ StreamChunk
    \/ StreamEnd
    \/ StreamRaise
    \/ RunAgentExcept
    \/ PrintResponse
    \/ MainExcept

SpecCli == Init /\ [][CliNext]_vars

(***************************************************************************)
(* Properties.                                                             *)
(***************************************************************************)
InSearch == fn = "search_teams"

SearchReturned == fn = "search_teams" /\ pc = "returned"

Has(r, key) == key \in DOMAIN r

\* The allow-list as the specification words it: letters, digits,
\* whitespace, '-', '.', apostrophe, '&'.
AllowListed(c) == c \in LetterChars \cup DigitChars \cup WhitespaceChars \cup {"-", ".", "'", "&"}

\* An argument the specification rejects: empty, not a string, a character
\* off the allow-list after stripping, or more than 50 characters after
\* stripping.
RejectedInput(name) ==
    \/ ~IsStr(name)
    \/ name.v = <<>>
    \/ \E i \in 1..Len(Strip(name.v)) : ~AllowListed(Strip(name.v)[i])
    \/ Len(Strip(name.v)) > 50

\* An argument that passes validation: a string that, stripped, is not
\* empty, has allow-listed characters only and at most 50 of them.
AcceptedInput(name) ==
    /\ IsStr(name)
    /\ Strip(name.v) # <<>>
    /\ \A i \in 1..Len(Strip(name.v)) : AllowListed(Strip(name.v)[i])
    /\ Len(Strip(name.v)) <= 50

\* C1: an invocation of search_teams with a rejected argument never gets to
\* the HTTP call (no requests.get is made at any point of it) and returns
\* success=false tagged validation_failed.
C1_ValidationBeforeIO ==
    (InSearch /\ RejectedInput(team_name)) =>
        /\ http_calls = 0
        /\ pc \in {"validate", "returned", "idle"}
        /\ pc = "returned" =>
             /\ Has(result, "success") /\ result.success = PyFalse
             /\ Has(result, "validation_failed") /\ result.validation_failed = PyTrue

\* C1's case: a 51-character name of allow-listed characters was rejected.
C1_Witness ==
    /\ SearchReturned
    /\ IsStr(team_name)
    /\ Len(Strip(team_name.v)) = 51
    /\ \A i \in 1..Len(Strip(team_name.v)) : AllowListed(Strip(team_name.v)[i])
    /\ Has(result, "validation_failed")
    /\ http_calls = 0

\* C2: every mapping search_teams returns has a boolean success; with
\* success=true it carries the teams list and no error key, with
\* success=false an error message and no teams key.
C2_Envelope ==
    SearchReturned =>
        /\ Has(result, "success")
        /\ result.success.t = "bool"
        /\ result.success.v =>
             (Has(result, "teams") /\ result.teams.t = "list" /\ ~Has(result, "error"))
        /\ ~result.success.v =>
             (Has(result, "error") /\ IsStr(result.error) /\ Truthy(result.error)
                /\ ~Has(result, "teams"))

\* C2's case: the result of the shape test of line 95 (a body that is no object).
C2_Witness == SearchReturned /\ Has(result, "api_error") /\ ~IsDict(data)

\* The remaining paths of C2, each reached.
C2_PathValidation == SearchReturned /\ Has(result, "validation_failed")

C2_PathEmpty == SearchReturned /\ Has(result, "teams") /\ ~Has(result, "api_source")

C2_PathFound == SearchReturned /\ Has(result, "api_source") /\ Len(result.teams.v) = 2

C2_PathTimeout == SearchReturned /\ Has(result, "timeout_error")

C2_PathNetwork == SearchReturned /\ Has(result, "network_error")

C2_PathGeneric == SearchReturned /\ Has(result, "technical_error")

StockReturned == fn = "get_stock_price" /\ pc = "returned"

\* C3: every result of get_stock_price has a boolean success field, true
\* with the data payload and false with an error description and an
\* error-kind tag.
C3_StockEnvelope ==
    StockReturned =>
        /\ Has(result, "success")
        /\ result.success.t = "bool"
        /\ result.success.v => (Has(result, "current_price") /\ ~Has(result, "error"))
        /\ ~result.success.v =>
             (Has(result, "error") /\ DOMAIN result \ {"error", "ticker", "success"} # {})

\* What get_stock_price does return: the six data keys and no error, or
\* error and ticker alone; a success key in neither.
StockShapes ==
    StockReturned =>
        \/ DOMAIN result = {"company_name", "current_price", "daily_high", "daily_low",
                            "currency", "ticker"}
        \/ DOMAIN result = {"error", "ticker"}

\* C4: an invocation whose argument passes validation makes no requests.get
\* before the call of line 79 and exactly one from then on, whatever its
\* outcome, with the stripped argument as parameter 't' and a timeout of 10
\* seconds; this holds of an invocation that repeats the argument of the one
\* before it as of any other.
C4_ExactlyOneGet ==
    (InSearch /\ AcceptedInput(team_name)) =>
        /\ pc \in {"validate", "request"} => http_calls = 0
        /\ pc \in {"raise_for_status", "json", "classify", "loop", "except", "returned", "raised"} =>
             /\ http_calls = 1
             /\ request.params.t = PyStr(Strip(team_name.v))
             /\ request.timeout = 10

\* C4's case: a second invocation with the same argument returned after a
\* timeout, having made its own call.
C4_Witness ==
    /\ SearchReturned /\ repeat
    /\ AcceptedInput(team_name)
    /\ exc # NoExc /\ exc.cls = "ReadTimeout"
    /\ http_calls = 1

\* C4's other outcomes, each reached by a repeated invocation.
C4_RepeatFound == SearchReturned /\ repeat /\ Has(result, "api_source") /\ http_calls = 1

C4_PaddedArgument ==
    SearchReturned /\ http_calls = 1 /\ IsStr(team_name) /\ Strip(team_name.v) # team_name.v

\* C5: a timeout of the HTTP call is not raised to the caller: the result is
\* success=false tagged timeout_error, not network_error, and its message
\* says to try again.
C5_Timeout ==
    (InSearch /\ exc # NoExc /\ exc.cls \in {"ConnectTimeout", "ReadTimeout"}) =>
        /\ pc \in {"except", "returned"}
        /\ pc = "returned" =>
             /\ result.success = PyFalse
             /\ Has(result, "timeout_error") /\ result.timeout_error = PyTrue
             /\ ~Has(result, "network_error")
             /\ result.error =
                  Lit("Request timed out. The sports API is taking too long to respond. Please try again.")

\* C5's case: a connect timeout (a Timeout that is a ConnectionError too) was
\* handled.
C5_Witness == SearchReturned /\ exc # NoExc /\ exc.cls = "ConnectTimeout"

\* A transport error in the specification's words: DNS, connection refused,
\* TLS failure.
TransportError(e) == e.cls \in {"ConnectionError", "SSLError"}

TimeoutError(e) == e.cls \in {"ConnectTimeout", "ReadTimeout"}

\* C6: an adapter never raises; in search_teams an exception that is neither
\* a timeout nor a transport error becomes the generic result (success=false
\* with technical_error holding the exception text); get_stock_price returns
\* an error mapping for any exception.
C6_GenericCatch ==
    /\ pc # "raised"
    /\ (SearchReturned /\ exc # NoExc /\ ~TimeoutError(exc) /\ ~TransportError(exc)) =>
          /\ result.success = PyFalse
          /\ Has(result, "technical_error") /\ result.technical_error = exc.msg
    /\ (StockReturned /\ exc # NoExc) => Has(result, "error")

\* What holds of the code: no exception reaches the caller, and an exception
\* that is no RequestException becomes the generic result.
NeverRaises ==
    /\ pc # "raised"
    /\ propagated = NoExc
    /\ (SearchReturned /\ exc # NoExc /\ ~IsInstance(exc, "RequestException")) =>
          /\ result.success = PyFalse
          /\ Has(result, "technical_error") /\ result.technical_error = exc.msg
    /\ (StockReturned /\ exc # NoExc) => (Has(result, "error") /\ DOMAIN result = {"error", "ticker"})

NeverRaisesWitness == SearchReturned /\ exc # NoExc /\ exc.cls = "TypeError"

\* C7: a non-2xx answer gives success=false as a generic failure: tagged
\* technical_error, not network_error or timeout_error.
C7_Non2xxGeneric ==
    (SearchReturned /\ response # Unset /\ response.status \notin 200..299) =>
        /\ result.success = PyFalse
        /\ Has(result, "technical_error")
        /\ ~Has(result, "network_error")
        /\ ~Has(result, "timeout_error")

\* What the code does with a 4xx or 5xx answer: network_error, the HTTP
\* error's text in technical_details.
Non2xxIsNetworkError ==
    (SearchReturned /\ response # Unset /\ StatusRaises(response.status)) =>
        /\ result.success = PyFalse
        /\ Has(result, "network_error")
        /\ result.technical_details = exc.msg

\* A team record of a response: a JSON object.
IsTeamRecord(x) == x.t = "dict"

\* A 'teams' value that reports no matches (C9): null, [] or [null].
ReportsNoMatch(x) ==
    \/ x = PyNone
    \/ x = PyList(<<>>)
    \/ x = PyList(<<PyNone>>)

\* A body without the expected shape: no JSON text, no JSON object, or a
\* 'teams' field that is not an array of team records.
MalformedBody(body) ==
    \/ ~body.decodable
    \/ /\ body.decodable
       /\ \/ body.value.t # "dict"
          \/ /\ body.value.t = "dict"
             /\ Has(body.value.v, "teams")
             /\ ~ReportsNoMatch(body.value.v.teams)
             /\ \/ body.value.v.teams.t # "list"
                \/ /\ body.value.v.teams.t = "list"
                   /\ \E i \in 1..Len(body.value.v.teams.v) :
                        ~IsTeamRecord(body.value.v.teams.v[i])

\* C8: a 2xx response with a malformed body gives success=false tagged
\* api_error, never success=true and never another tag.
C8_MalformedIsApiError ==
    (SearchReturned /\ response # Unset /\ response.status \in 200..299
       /\ MalformedBody(response.body)) =>
        /\ result.success = PyFalse
        /\ Has(result, "api_error")
        /\ ~Has(result, "network_error")
        /\ ~Has(result, "technical_error")

\* What the code does: api_error exactly when the decoded body is no object.
ApiErrorIffNotObject ==
    SearchReturned => (Has(result, "api_error") <=> (data # Unset /\ ~IsDict(data)))

\* C9: the call succeeded and the API reports no matches ('teams' absent,
\* null, [] or [null]): success=true, teams=[], count=0, a non-empty message
\* and no error field.
C9_NoMatches ==
    (SearchReturned /\ response # Unset /\ response.status \in 200..299
       /\ response.body.decodable /\ response.body.value.t = "dict"
       /\ (Has(response.body.value.v, "teams") => ReportsNoMatch(response.body.value.v.teams))) =>
        /\ result.success = PyTrue
        /\ Has(result, "teams") /\ result.teams = PyList(<<>>)
        /\ Has(result, "count") /\ result.count = PyInt(0)
        /\ Has(result, "message") /\ IsStr(result.message) /\ Len(result.message.v) > 0
        /\ ~Has(result, "error")

\* C9's case: the API answered {"teams": [null]}.
C9_Witness ==
    /\ SearchReturned /\ response # Unset /\ response.status = 200
    /\ response.body = JsonBody(PyDict([teams |-> PyList(<<PyNone>>)]))
    /\ result.count = PyInt(0)

\* C9's other cases, each reached.
C9_Absent == SearchReturned /\ data = EmptyDict /\ Has(result, "teams")

C9_Null == SearchReturned /\ data = PyDict([teams |-> PyNone]) /\ Has(result, "teams")

C9_EmptyList == SearchReturned /\ data = PyDict([teams |-> PyList(<<>>)]) /\ Has(result, "teams")

\* The documented field table: remote key, renamed key, default.
DocumentedFields ==
    << [remote |-> "strTeam",          local |-> "team_name",      default |-> Lit("Unknown")],
       [remote |-> "strAlternate",     local |-> "alternate_name", default |-> Lit("")],
       [remote |-> "strLeague",        local |-> "league",         default |-> Lit("Unknown League")],
       [remote |-> "strSport",         local |-> "sport",          default |-> Lit("Unknown Sport")],
       [remote |-> "intFormedYear",    local |-> "founded",        default |-> Lit("")],
       [remote |-> "strStadium",       local |-> "venue",          default |-> Lit("Unknown Venue")],
       [remote |-> "strLocation",      local |-> "location",       default |-> Lit("Unknown Location")],
       [remote |-> "strDescriptionEN", local |-> "description",    default |-> Lit("")],
       [remote |-> "strWebsite",       local |-> "website",        default |-> Lit("")],
       [remote |-> "strTeamBadge",     local |-> "logo",           default |-> Lit("")],
       [remote |-> "strTeamJersey",    local |-> "jersey",         default |-> Lit("")],
       [remote |-> "strCountry",       local |-> "country",        default |-> Lit("Unknown")] >>

\* An entry of 'teams' that search_teams normalises: a non-empty object.
IsNormalised(x) == x.t = "dict" /\ DOMAIN x.v # {}

\* The remote records behind the teams of a result, in order.
NormalisedRecords == SelectSeq(Iterate(teams_data).value, IsNormalised)

\* search_teams returned the teams it normalised from the response's records.
FoundReturned == SearchReturned /\ Has(result, "api_source")

\* The value the documented table gives field row of remote record rec: the
\* default when rec lacks the field, the field's value when it has it.
Documented(rec, row) == IF Has(rec.v, row.remote) THEN rec.v[row.remote] ELSE row.default

\* The same, a description of more than 200 characters being cut to its
\* first 200 and '...'.
DocumentedOrCut(rec, row) ==
    IF /\ row.remote = "strDescriptionEN"
       /\ Has(rec.v, row.remote)
       /\ IsStr(rec.v[row.remote])
       /\ Len(rec.v[row.remote].v) > 200
    THEN PyStr(SubSeq(rec.v[row.remote].v, 1, 200) \o <<".", ".", ".">>)
    ELSE Documented(rec, row)

\* C10 as stated: in every normalised team each missing field has its
\* documented default and each supplied field is copied under its renamed
\* key; count is the number of normalised teams.
C10_DefaultsAndCopies ==
    FoundReturned =>
        /\ Len(result.teams.v) = Len(NormalisedRecords)
        /\ result.count = PyInt(Len(result.teams.v))
        /\ \A i \in 1..Len(NormalisedRecords) : \A k \in DOMAIN DocumentedFields :
             result.teams.v[i].v[DocumentedFields[k].local] =
                Documented(NormalisedRecords[i], DocumentedFields[k])

\* C10 as amended: the same, except that a supplied description of more than
\* 200 characters is not copied but cut to its first 200 characters and '...'.
C10_DefaultsAndCopiesButLongDescription ==
    FoundReturned =>
        /\ Len(result.teams.v) = Len(NormalisedRecords)
        /\ result.count = PyInt(Len(result.teams.v))
        /\ \A i \in 1..Len(NormalisedRecords) : \A k \in DOMAIN DocumentedFields :
             result.teams.v[i].v[DocumentedFields[k].local] =
                DocumentedOrCut(NormalisedRecords[i], DocumentedFields[k])

\* C10's case: a record with a name and no league was normalised, its league
\* the default.
C10_Witness ==
    /\ FoundReturned
    /\ \E i \in 1..Len(NormalisedRecords) :
         /\ Has(NormalisedRecords[i].v, "strTeam")
         /\ ~Has(NormalisedRecords[i].v, "strLeague")
         /\ result.teams.v[i].v.league = Lit("Unknown League")
         /\ result.teams.v[i].v.team_name = NormalisedRecords[i].v.strTeam

\* C10's other cases, each reached: every field missing in some record and
\* supplied in another, a long description, a count of 2.
C10_EveryFieldMissing ==
    /\ FoundReturned /\ Len(NormalisedRecords) = 1
    /\ DOMAIN NormalisedRecords[1].v = {"idTeam"}

C10_LongDescription ==
    /\ FoundReturned /\ Len(NormalisedRecords) = 1
    /\ Has(NormalisedRecords[1].v, "strDescriptionEN")
    /\ IsStr(NormalisedRecords[1].v.strDescriptionEN)
    /\ Len(NormalisedRecords[1].v.strDescriptionEN.v) = 201

C10_CountTwo == FoundReturned /\ result.count = PyInt(2) /\ Len(Iterate(teams_data).value) = 2

\* The remote description of normalised record i, when it is a string.
HasTextDescription(i) ==
    /\ Has(NormalisedRecords[i].v, "strDescriptionEN")
    /\ IsStr(NormalisedRecords[i].v.strDescriptionEN)

RemoteDescription(i) == NormalisedRecords[i].v.strDescriptionEN.v

\* C11: in every normalised team a remote description of more than 200
\* characters is replaced by its first 200 characters followed by '...'
\* (203 characters in all), and one of 200 characters or fewer is passed
\* through unchanged.
C11_DescriptionCut ==
    FoundReturned =>
        \A i \in 1..Len(NormalisedRecords) :
            HasTextDescription(i) =>
                LET out == result.teams.v[i].v.description
                IN  /\ Len(RemoteDescription(i)) > 200 =>
                         /\ IsStr(out)
                         /\ Len(out.v) = 203
                         /\ \A j \in 1..200 : out.v[j] = RemoteDescription(i)[j]
                         /\ \A j \in 201..203 : out.v[j] = "."
                    /\ Len(RemoteDescription(i)) <= 200 => out = PyStr(RemoteDescription(i))

\* C11's case: a description of 201 characters was cut to 203.
C11_Witness ==
    /\ FoundReturned /\ Len(NormalisedRecords) = 1
    /\ HasTextDescription(1)
    /\ Len(RemoteDescription(1)) = 201
    /\ Len(result.teams.v[1].v.description.v) = 203

\* C11's boundary: a description of exactly 200 characters came through whole.
C11_ExactlyAtLimit ==
    /\ FoundReturned /\ Len(NormalisedRecords) = 1
    /\ HasTextDescription(1)
    /\ Len(RemoteDescription(1)) = 200
    /\ Len(result.teams.v[1].v.description.v) = 200


(***************************************************************************)
(* The command-line runner's properties (checked under SpecCli).           *)
(***************************************************************************)
ResponseStart == <<"AGENT_RESPONSE_START">>
ResponseEnd == <<"AGENT_RESPONSE_END">>
ErrorStart == <<"AGENT_ERROR_START">>
ErrorEnd == <<"AGENT_ERROR_END">>

Exited == cpc = "exited"

\* main() was entered: the import of the agent succeeded.
MainEntered == cpc \notin {"off", "import"} /\ stdout # ImportErrorBlock

\* Context arguments that are no JSON text.
RejectedContext == {"not-json", "{a:1}", ""}

InvalidContextGiven == Len(argv) = 2 /\ argv[2] \in RejectedContext

\* stdout is one error block whose message line starts with the prefix.
OneErrorBlock(prefix) ==
    /\ Len(stdout) = 3
    /\ stdout[1] = ErrorStart
    /\ stdout[2] # <<>> /\ Head(stdout[2]) = prefix
    /\ stdout[3] = ErrorEnd

C12_AcceptedContextRuns ==
    /\ Exited
    /\ argv \in {<<"hi", "5">>, <<"hi", "NaN">>}
    /\ run_async_calls = 1
    /\ exit_code = 0
\* The order in which a chunk's fields are looked at.
FieldPriority == <<"content", "text", "data">>

\* The first field of the priority order that the chunk has, as text; the
\* chunk's string representation when it has none of them.
Chosen(chunk) ==
    LET have == {i \in DOMAIN FieldPriority : FieldPriority[i] \in DOMAIN chunk.attrs}
        first == CHOOSE i \in have : \A j \in have : i <= j
    IN  IF have = {} THEN chunk.repr ELSE StrOf(chunk.attrs[FieldPriority[first]]).value

\* The contributions of the chunks, joined in arrival order.
RECURSIVE Joined(_)
Joined(chunks) == IF chunks = <<>> THEN <<>> ELSE Chosen(Head(chunks)) \o Joined(Tail(chunks))

\* A run that ended without any exception being raised.
SuccessfulRun == Exited /\ MainEntered /\ cli_exc = NoExc

\* C13: a successful run has printed exactly AGENT_RESPONSE_START, the
\* whitespace-trimmed concatenation in arrival order of one contribution per
\* streamed chunk ('content', else 'text', else 'data', else the chunk's
\* string representation) and AGENT_RESPONSE_END, and exits with code 0; no
\* other run exits with code 0.
C13_TrimmedConcatenation ==
    /\ SuccessfulRun =>
         /\ stdout = <<ResponseStart, Strip(Joined(received)), ResponseEnd>>
         /\ exit_code = 0
    /\ (Exited /\ exit_code = 0) => SuccessfulRun

\* "Hel" then "lo", the second chunk also carrying 'text' and 'data', print "Hello".
C13_Witness ==
    /\ SuccessfulRun
    /\ Len(received) = 2
    /\ received[1].attrs = [content |-> PyStr(<<"H", "e", "l">>)]
    /\ DOMAIN received[2].attrs = {"content", "text", "data"}
    /\ stdout = <<ResponseStart, <<"H", "e", "l", "l", "o">>, ResponseEnd>>
    /\ exit_code = 0

\* The trimming removes something: a chunk of whitespace is not printed.
C13_Trimmed ==
    /\ SuccessfulRun
    /\ Len(received) = 2
    /\ Len(Strip(Joined(received))) < Len(Joined(received))
    /\ stdout[2] # <<>>

\* The lower priorities and the fallback are used.
C13_Fallbacks ==
    /\ SuccessfulRun
    /\ Len(received) = 2
    /\ DOMAIN received[1].attrs = {"text", "data"}
    /\ DOMAIN received[2].attrs = {}
    /\ stdout[2] = <<"t", "<", "E", ">">>
\* The agent raised: run_agent's except clause wrapped an exception of the
\* stream or of the handling of a chunk.
AgentRaised == run_async_calls = 1 /\ cli_exc # NoExc /\ cli_exc.cls = "Exception"

\* What the stream, or str() of a chunk's field, raises.
AgentExceptions == StreamExceptions \cup {Exc("RuntimeError", "__str__ failed")}

\* The text holds a stack trace.
HasStackTrace(text) == "Traceback (most recent call last):" \in Range(text)

\* The text is made of the exception's message.
CarriesMessageOf(text, e) ==
    \E prefix \in {<<>>, <<"Error: ">>, <<"Error: ", "Agent execution error: ">>} :
        text = prefix \o StrOfExc(e)

\* C14: a run in which the agent raised has printed exactly
\* AGENT_ERROR_START, the exception's message without a stack trace, and
\* AGENT_ERROR_END, and exits with a non-zero status.
C14_MessageNotStackTrace ==
    (Exited /\ AgentRaised) =>
        /\ Len(stdout) = 3
        /\ stdout[1] = ErrorStart
        /\ \E e \in AgentExceptions : CarriesMessageOf(stdout[2], e)
        /\ ~HasStackTrace(stdout[2])
        /\ stdout[3] = ErrorEnd
        /\ exit_code # 0

\* What the code does: the sentinels and the status are as claimed, the
\* text between them is the message followed by the stack trace.
C14_SentinelsAndStatus ==
    (Exited /\ AgentRaised /\ stdout_utf8) =>
        /\ Len(stdout) = 3
        /\ stdout[1] = ErrorStart
        /\ \E e \in AgentExceptions :
             stdout[2] = <<"Error: ">> \o ErrorDetails(e)
        /\ HasStackTrace(stdout[2])
        /\ stdout[3] = ErrorEnd
        /\ exit_code = 1

\* The stream raised after a chunk was received.
C14_RaisedMidStream == Exited /\ AgentRaised /\ Len(received) = 1 /\ stdout_utf8

\* The error text could not be printed: no closing sentinel.
C14_ErrorBlockCut ==
    /\ Exited /\ AgentRaised /\ ~stdout_utf8
    /\ stdout = <<ErrorStart>>
    /\ stderr_traceback
\* stdout is exactly the response block.
OneResponseBlock == Len(stdout) = 3 /\ stdout[1] = ResponseStart /\ stdout[3] = ResponseEnd

\* stdout is exactly one error block.
OneAnyErrorBlock == Len(stdout) = 3 /\ stdout[1] = ErrorStart /\ stdout[3] = ErrorEnd

\* The number of lines of stdout equal to the line.
Occurrences(line) == Cardinality({i \in DOMAIN stdout : stdout[i] = line})

\* C15: stdout is empty while the agent's stream is being consumed; a run
\* that has ended printed exactly one sentinel block, the response block
\* with exit code 0 or the error block with exit code 1; a run that exits
\* with code 1 printed no AGENT_RESPONSE_START; and a failed run's exception
\* was caught and reported once.
C15_OneBlockAfterStream ==
    /\ cpc \in {"call", "stream", "run_agent_except"} => stdout = <<>>
    /\ Exited =>
         /\ \/ OneResponseBlock /\ exit_code = 0
            \/ OneAnyErrorBlock /\ exit_code = 1
         /\ exit_code = 1 => Occurrences(ResponseStart) = 0
         /\ exit_code = 1 => Occurrences(ErrorStart) = 1 /\ ~stderr_traceback

\* The part that holds of every run: nothing is printed while the stream is
\* consumed, and the exit code is 0 or 1.
C15_SilentWhileStreaming ==
    /\ cpc \in {"call", "stream", "run_agent_except"} => stdout = <<>>
    /\ Exited => exit_code \in {0, 1}

\* The claim holds of the runs whose prints all succeed.
C15_OneBlockWhenPrintable ==
    (Exited /\ stdout_utf8) =>
        /\ \/ OneResponseBlock /\ exit_code = 0
           \/ OneAnyErrorBlock /\ exit_code = 1
        /\ ~stderr_traceback

\* print(response) raised after AGENT_RESPONSE_START was printed: the
\* error block follows it and the run exits with code 1.
C15_ResponseStartThenError ==
    /\ Exited
    /\ exit_code = 1
    /\ stdout = <<ResponseStart, ErrorStart,
                  <<"Error: ", "'charmap' codec can't encode character">>, ErrorEnd>>
=============================================================================
